---- MODULE Spec2Model ----
(***************************************************************************)
(* Model of scf-unzip.py: the archive walk of _extract_and_upload (safety  *)
(* check, directory classification, name normalisation, parallel uploads   *)
(* behind a per-level thread pool, depth-bounded recursion into nested     *)
(* zips) and the part of main_handler that downloads the zip, calls the    *)
(* extraction and builds the structured result.                            *)
(*                                                                         *)
(* Names, keys and paths are strings, handled character by character with  *)
(* Len, SubSeq and \o, as the Python code handles them.                    *)
(***************************************************************************)
EXTENDS Integers, Sequences, FiniteSets, TLC

(***************************************************************************)
(* Bounds of the model.                                                    *)
(***************************************************************************)
\* largest MAX_RECURSION_DEPTH the handler is configured with
MaxBudget == 10
\* how many upload operations (put_object calls) may fail in one run
MaxFailures == 2

(***************************************************************************)
(* Program constants.                                                      *)
(***************************************************************************)
\* MAX_WORKERS: threads of one level's ThreadPoolExecutor
MAX_WORKERS == 2
\* 0o40000, the S_IFDIR bit tested in external_attr >> 16
S_IFDIR == 16384

(***************************************************************************)
(* String helpers (Python str methods and slices).                         *)
(***************************************************************************)
Char(s, i) == SubSeq(s, i, i)

startswith(s, p) == Len(s) >= Len(p) /\ SubSeq(s, 1, Len(p)) = p

endswith(s, p) == Len(s) >= Len(p) /\ SubSeq(s, Len(s) - Len(p) + 1, Len(s)) = p

\* s[:-n]
DropLast(s, n) == IF Len(s) > n THEN SubSeq(s, 1, Len(s) - n) ELSE ""

\* s[n:]
DropFirst(s, n) == IF Len(s) > n THEN SubSeq(s, n + 1, Len(s)) ELSE ""

RECURSIVE split_from(_, _, _)
split_from(s, i, cur) ==
    IF i > Len(s) THEN <<cur>>
    ELSE IF Char(s, i) = "/" THEN <<cur>> \o split_from(s, i + 1, "")
    ELSE split_from(s, i + 1, cur \o Char(s, i))

\* s.split('/')
split(s) == split_from(s, 1, "")

\* '/'.join(comps)
join_comps(comps) ==
    LET joined[c \in Seq(STRING)] ==
            IF Len(c) = 0 THEN ""
            ELSE IF Len(c) = 1 THEN c[1]
            ELSE c[1] \o "/" \o joined[Tail(c)]
    IN joined[comps]

UpperToLower ==
    [A |-> "a", B |-> "b", C |-> "c", D |-> "d", E |-> "e", F |-> "f", G |-> "g",
     H |-> "h", I |-> "i", J |-> "j", K |-> "k", L |-> "l", M |-> "m", N |-> "n",
     O |-> "o", P |-> "p", Q |-> "q", R |-> "r", S |-> "s", T |-> "t", U |-> "u",
     V |-> "v", W |-> "w", X |-> "x", Y |-> "y", Z |-> "z"]

RECURSIVE lower(_)
\* s.lower()
lower(s) ==
    IF Len(s) = 0 THEN ""
    ELSE (IF Head(s) \in DOMAIN UpperToLower THEN UpperToLower[Head(s)] ELSE Head(s))
         \o lower(Tail(s))

RECURSIVE rfind_slash(_, _)
\* s.rfind('/') + 1, searching from position i downwards
rfind_slash(s, i) ==
    IF i = 0 THEN 0
    ELSE IF Char(s, i) = "/" THEN i
    ELSE rfind_slash(s, i - 1)

\* posixpath.basename(p)
basename(p) == DropFirst(p, rfind_slash(p, Len(p)))

\* posixpath.join(a, b)
join(a, b) ==
    IF startswith(b, "/") THEN b
    ELSE IF a = "" \/ endswith(a, "/") THEN a \o b
    ELSE a \o "/" \o b

\* the loop of posixpath.normpath over the components
norm_comps(comps, new_comps, initial_slashes) ==
    LET loop[rest \in Seq(STRING), new \in Seq(STRING)] ==
            IF Len(rest) = 0 THEN new
            ELSE LET comp == Head(rest) IN
                 IF comp = "" \/ comp = "." THEN loop[Tail(rest), new]
                 ELSE IF \/ comp # ".."
                         \/ (initial_slashes = 0 /\ Len(new) = 0)
                         \/ (Len(new) > 0 /\ new[Len(new)] = "..")
                      THEN loop[Tail(rest), Append(new, comp)]
                 ELSE IF Len(new) > 0
                      THEN loop[Tail(rest), SubSeq(new, 1, Len(new) - 1)]
                 ELSE loop[Tail(rest), new]
    IN loop[comps, new_comps]

\* posixpath.normpath(path)
normpath(path) ==
    IF path = "" THEN "."
    ELSE LET initial_slashes ==
                 IF ~startswith(path, "/") THEN 0
                 ELSE IF startswith(path, "//") /\ ~startswith(path, "///") THEN 2
                 ELSE 1
             body == join_comps(norm_comps(split(path), <<>>, initial_slashes))
             p == (IF initial_slashes = 2 THEN "//"
                   ELSE IF initial_slashes = 1 THEN "/" ELSE "") \o body
         IN IF p = "" THEN "." ELSE p

(***************************************************************************)
(* The pure helpers of the module.                                         *)
(***************************************************************************)
\* a safety check that forgets the '..' segments
_is_safe_member_NoDotDot(member_name) == ~startswith(member_name, "/")

\* _is_safe_member: no absolute path, no '..' segment
_is_safe_member(member_name) ==
    IF startswith(member_name, "/") THEN FALSE
    ELSE LET parts == split(member_name)
         IN \A i \in 1..Len(parts) : parts[i] # ".."

\* _sanitize_member: normpath, then strip a leading './'
_sanitize_member(member_name) ==
    LET p == normpath(member_name)
    IN IF startswith(p, "./") THEN DropFirst(p, 2) ELSE p

\* _content_type_for: mimetypes.guess_type on the extension, or the default
_content_type_for(name) ==
    IF endswith(lower(name), ".txt") THEN "text/plain"
    ELSE IF endswith(lower(name), ".zip") THEN "application/zip"
    ELSE "application/octet-stream"

\* a classifier without the external_attr fallback
_zipinfo_is_dir_NoFallback(member) == member.is_dir = "true"

\* _zipinfo_is_dir: ZipInfo.is_dir(), else the S_IFDIR bit of external_attr >> 16;
\* an exception of either probe is swallowed
_zipinfo_is_dir(member) ==
    IF member.is_dir = "true" THEN TRUE
    ELSE IF member.attr_raises THEN FALSE
    ELSE (member.external_attr.hi \div S_IFDIR) % 2 # 0

\* a nested-zip test that forgets lower()
IsNestedZip_CaseSensitive(clean_name) == endswith(clean_name, ".zip")

\* clean_name.lower().endswith('.zip')
IsNestedZip(clean_name) == endswith(lower(clean_name), ".zip")

\* dest_key = posixpath.join(dest_prefix, clean_name)
DestKey(dest_prefix, clean_name) == join(dest_prefix, clean_name)

\* a nested prefix that keeps the .zip extension
NestedPrefix_KeepsExtension(dest_prefix, clean_name) == join(dest_prefix, clean_name)

\* 'dest_prefix' of a nested job: posixpath.join(dest_prefix, clean_name[:-4])
NestedPrefix(dest_prefix, clean_name) == join(dest_prefix, DropLast(clean_name, 4))

\* str(n) for the small indices used in staging paths
Str(n) == CASE n = 0 -> "0" [] n = 1 -> "1" [] n = 2 -> "2" [] n = 3 -> "3"
            [] n = 4 -> "4" [] n = 5 -> "5" [] n = 6 -> "6" [] n = 7 -> "7"
            [] n = 8 -> "8" [] n = 9 -> "9"

\* nested_zip_path = f"/tmp/nested_{len(nested_zips)}_{posixpath.basename(clean_name)}"
NestedZipPath(n, clean_name) == "/tmp/nested_" \o Str(n) \o "_" \o basename(clean_name)

\* a recursive call that passes its own budget on
ChildDepth_NoDecrement(max_depth) == max_depth

\* a recursive call that takes two off the budget
ChildDepth_MinusTwo(max_depth) == max_depth - 2

\* the budget handed to the recursive call
ChildDepth(max_depth) == max_depth - 1

\* 'max_depth_reached' of the returned dict
DepthFlag(max_depth, nested_zips) == max_depth <= 1 /\ Len(nested_zips) > 0

\* the dict a level returns
LevelResult(files_uploaded, nested_zips_processed, flag) ==
    [files_uploaded |-> files_uploaded,
     nested_zips_processed |-> nested_zips_processed,
     max_depth_reached |-> flag]

\* a budget test that lets a call with budget 0 through
BudgetExhausted_OffByOne(max_depth) == max_depth < 0

\* the early return of a call whose budget is used up
BudgetExhausted(max_depth) == max_depth <= 0

(***************************************************************************)
(* Archives.  The bytes of an entry are a value: a plain file, a payload   *)
(* that cannot be read (bad CRC), or a zip archive, whose members          *)
(* infolist gives.  A member is what zipfile hands to the walker: the      *)
(* stored filename, the outcome of is_dir(), external_attr (32 bits, kept  *)
(* as its two 16 bit halves), whether reading external_attr raises, and    *)
(* the payload.                                                            *)
(***************************************************************************)
File(id) == [kind |-> "file", id |-> id, k |-> 0, n |-> 0]
\* the plain file of level k of a chain
Plain(k) == [kind |-> "file", id |-> "plain", k |-> k, n |-> 0]
Bad(id) == [kind |-> "bad", id |-> id, k |-> 0, n |-> 0]
Arch(id) == [kind |-> "zip", id |-> id, k |-> 0, n |-> 0]
\* level k of a chain of n nested archives
Chain(k, n) == [kind |-> "zip", id |-> "chain", k |-> k, n |-> n]

\* external_attr values: none, a regular file 0o100644, a directory 0o40755 (with the
\* DOS directory bit), the DOS directory bit alone
AttrNone == [hi |-> 0, lo |-> 0]
AttrFile == [hi |-> 33188, lo |-> 0]
AttrDir == [hi |-> 16877, lo |-> 16]
AttrDosDir == [hi |-> 0, lo |-> 16]

\* a member object with the given probe outcomes
Probe(filename, is_dir, external_attr, attr_raises, data) ==
    [filename |-> filename, is_dir |-> is_dir, external_attr |-> external_attr,
     attr_raises |-> attr_raises, data |-> data]

\* a zipfile.ZipInfo: is_dir() is filename.endswith('/')
Member(filename, external_attr, data) ==
    Probe(filename, IF endswith(filename, "/") THEN "true" ELSE "false",
          external_attr, FALSE, data)

\* zf.infolist() of the archive whose bytes are d
infolist(d) ==
    CASE d.id = "job" ->
           <<Member("report.txt", AttrFile, File("report")),
             Member("empty_dir/", AttrDir, File("")),
             Member("bundle.zip", AttrFile, Arch("bundle"))>>
      [] d.id = "bundle" ->
           <<Member("inner.txt", AttrFile, File("inner"))>>
      [] d.id = "corrupt" ->
           <<Member("report.txt", AttrFile, File("report")),
             Member("bundle.zip", AttrFile, File("garbage"))>>
      [] d.id = "tree" ->
           <<Member("x.zip", AttrFile, Arch("bundle")),
             Member("y.zip", AttrFile, Arch("treeY"))>>
      [] d.id = "treeY" ->
           <<Member("z.zip", AttrFile, Arch("bundle")),
             Member("f3.txt", AttrNone, File("f3"))>>
      [] d.id = "chain" ->
           IF d.k < d.n
           THEN <<Member("plain.txt", AttrFile, Plain(d.k)),
                  Member("next.zip", AttrFile, Chain(d.k + 1, d.n))>>
           ELSE <<Member("plain.txt", AttrFile, Plain(d.k))>>
      [] d.id = "hostile" ->
           <<Member("/abs.txt", AttrFile, File("h1")),
             Member("../up.txt", AttrFile, File("h2")),
             Member("a/../b.txt", AttrFile, File("h3")),
             Member("/root.zip", AttrFile, Arch("bundle")),
             Member("x/../../evil.zip", AttrFile, Arch("bundle")),
             Member("..", AttrFile, File("h4")),
             Member("./ok/./fine.txt", AttrFile, File("h5")),
             Member("deep/PHOTOS.ZIP", AttrFile, Arch("hostile2"))>>
      [] d.id = "hostile2" ->
           <<Member("sub/../../out.txt", AttrFile, File("h6")),
             Member("//x.zip", AttrFile, Arch("bundle")),
             Member("a..b/c.txt", AttrFile, File("h7"))>>
      [] d.id = "dirs" ->
           <<Probe("d1", "false", AttrDir, FALSE, File("")),
             Member("d2/", AttrNone, File("")),
             Probe("d3", "raise", AttrDir, FALSE, File("")),
             Probe("f4", "raise", AttrDir, TRUE, File("f4")),
             Probe("d5.zip", "false", AttrDir, FALSE, Arch("bundle")),
             Member("f6", AttrFile, File("f6")),
             Probe("f7", "false", AttrNone, TRUE, File("f7")),
             Member("d8", AttrDosDir, File(""))>>
      [] d.id = "quine" ->
           <<Member("q.txt", AttrFile, File("q")),
             Member("self.zip", AttrFile, Arch("quine"))>>
      [] d.id = "clash" ->
           <<Member("a.txt", AttrFile, File("one")),
             Member("./a.txt", AttrFile, File("two")),
             Member("", AttrNone, File("")),
             Member("//", AttrNone, File("")),
             Member("...zip", AttrFile, Arch("bundle")),
             Member("dup.zip", AttrFile, Arch("clash2"))>>
      [] d.id = "clash2" ->
           <<Member("dup.zip", AttrFile, Arch("bundle")),
             Member("inner.txt", AttrFile, File("other"))>>
      [] d.id = "wrap" ->
           <<Member("w.txt", AttrFile, File("w")),
             Member("inner.zip", AttrFile, Arch("badcrc")),
             Member("tail.zip", AttrFile, Arch("bundle"))>>
      [] d.id = "badcrc" ->
           <<Member("ok.txt", AttrFile, File("ok")),
             Member("broken.bin", AttrFile, Bad("broken")),
             Member("late.txt", AttrFile, File("late"))>>
      [] d.id = "pair" ->
           <<Member("first.zip", AttrFile, Arch("bundle")),
             Member("second.zip", AttrFile, Arch("trio"))>>
      [] d.id = "trio" ->
           <<Member("one.txt", AttrFile, File("one")),
             Member("two.txt", AttrFile, File("two")),
             Member("three.txt", AttrFile, File("three"))>>

\* the archives an event may name
TopArchives ==
    {Arch("job"), Arch("corrupt"), Arch("tree"), Arch("hostile"), Arch("dirs"),
     Arch("quine"), Arch("clash"), Arch("wrap"), Arch("pair")}
    \cup {Chain(1, n) : n \in 1..(MaxBudget + 1)}

\* the values MAX_RECURSION_DEPTH is configured with
Budgets == -1..MaxBudget

\* what main_handler has resolved from the event and the environment when it
\* reaches the download: the zip, OUTPUT_PREFIX, the zip's base name, the budget
Inputs ==
    {[zip |-> z, OUTPUT_PREFIX |-> "out/", zip_name |-> "job1", MAX_RECURSION_DEPTH |-> b] :
        z \in TopArchives, b \in Budgets}
    \cup {[zip |-> Arch("quine"), OUTPUT_PREFIX |-> "out/", zip_name |-> "nested_0_self",
           MAX_RECURSION_DEPTH |-> b] : b \in Budgets}

(***************************************************************************)
(* What _extract_and_upload does with one member of the archive.           *)
(***************************************************************************)
\* the branch of the loop body a member takes
Classify(member, clean_name) ==
    IF ~_is_safe_member(member.filename) THEN "unsafe"
    ELSE IF _zipinfo_is_dir(member) THEN "dir"
    ELSE IF endswith(clean_name, "/") THEN "dirname"
    ELSE IF member.data.kind = "bad" THEN "unreadable"
    ELSE IF IsNestedZip(clean_name) THEN "nested"
    ELSE "upload"

\* the upload task submitted for member idx of the level cid
UploadTask(cid, idx, member, clean_name, dest_prefix) ==
    [cid |-> cid, idx |-> idx, filename |-> member.filename,
     key |-> DestKey(dest_prefix, clean_name),
     data |-> member.data,
     content_type |-> _content_type_for(clean_name)]

\* the entry appended to nested_zips for member idx of the level cid
NestedJob(cid, idx, member, clean_name, dest_prefix, n) ==
    [cid |-> cid, idx |-> idx, pos |-> n + 1, filename |-> member.filename,
     path |-> NestedZipPath(n, clean_name),
     data |-> member.data,
     dest_prefix |-> NestedPrefix(dest_prefix, clean_name)]

(***************************************************************************)
(* State.                                                                  *)
(***************************************************************************)
VARIABLES
    input,      \* the zip, prefix and budget of this invocation
    hpc,        \* where main_handler is
    response,   \* what main_handler returns
    stack,      \* the activations of _extract_and_upload, innermost last
    cos,        \* the bucket: the objects put so far, one per key
    tmpfs,      \* the files under /tmp
    nfail,      \* I/O failures injected so far
    submitted,  \* every upload task handed to executor.submit
    puts,       \* every put_object that succeeded
    jobs,       \* every entry appended to a nested_zips list
    staged,     \* every nested job whose temp file was opened for writing
    opened,     \* every archive zipfile.ZipFile opened
    returned,   \* every call that returned, with its result
    raised,     \* every call that raised
    upfailed,   \* every upload task whose put_object raised
    stagefailed \* every nested job whose temp file could not be written

vars == <<input, hpc, response, stack, cos, tmpfs, nfail,
          submitted, puts, jobs, staged, opened, returned, raised, upfailed, stagefailed>>

hist == <<submitted, puts, jobs, staged, opened, returned, raised, upfailed, stagefailed>>

\* tmp_zip = f"/tmp/{zip_name}.zip"
tmp_zip == "/tmp/" \o input.zip_name \o ".zip"

\* dest_prefix = posixpath.join(OUTPUT_PREFIX, zip_name)
top_prefix == join(input.OUTPUT_PREFIX, input.zip_name)

\* open(path, 'wb'); f.write(data)
WriteFile(fs, path, data) == {f \in fs : f.path # path} \cup {[path |-> path, data |-> data]}

\* os.remove(path) inside try/except: a missing file is ignored
RemoveFile(fs, path) == {f \in fs : f.path # path}

FileExists(fs, path) == \E f \in fs : f.path = path

ReadFile(fs, path) == (CHOOSE f \in fs : f.path = path).data

\* cos_client.put_object: the object under the key is replaced
PutObject(bucket, task) ==
    {o \in bucket : o.key # task.key}
    \cup {[key |-> task.key, data |-> task.data, content_type |-> task.content_type]}

\* a new activation of _extract_and_upload(zip_path, bucket, dest_prefix, max_depth)
Frame(cid, zip_path, dest_prefix, max_depth) ==
    [cid |-> cid, zip_path |-> zip_path, dest_prefix |-> dest_prefix,
     max_depth |-> max_depth, pc |-> "entry", members |-> <<>>, i |-> 1,
     tasks |-> <<>>, st |-> <<>>, nested_zips |-> <<>>, j |-> 1,
     files_uploaded |-> 0, nested_zips_processed |-> 0]

Top == stack[Len(stack)]

Callers == SubSeq(stack, 1, Len(stack) - 1)

SetTop(f) == [stack EXCEPT ![Len(stack)] = f]

Finished(f) == \A t \in 1..Len(f.st) : f.st[t] \in {"done", "failed"}

Init ==
    /\ input \in Inputs
    /\ hpc = "download"
    /\ response = [status |-> "none"]
    /\ stack = <<>>
    /\ cos = {}
    /\ tmpfs = {}
    /\ nfail = 0
    /\ submitted = {}
    /\ puts = {}
    /\ jobs = {}
    /\ staged = {}
    /\ opened = {}
    /\ returned = {}
    /\ raised = {}
    /\ upfailed = {}
    /\ stagefailed = {}

(***************************************************************************)
(* main_handler, from the download on.                                     *)
(***************************************************************************)
\* _download_to_tmp succeeds: the zip is in /tmp
Download ==
    /\ hpc = "download"
    /\ tmpfs' = WriteFile(tmpfs, tmp_zip, input.zip)
    /\ hpc' = "extract"
    /\ UNCHANGED <<input, response, stack, cos, nfail, hist>>

\* get_object raises: the except clause of main_handler answers
DownloadFails ==
    /\ hpc = "download"
    /\ nfail < MaxFailures
    /\ nfail' = nfail + 1
    /\ hpc' = "done"
    /\ response' = [status |-> "error"]
    /\ UNCHANGED <<input, stack, cos, tmpfs, hist>>

\* extraction_result = _extract_and_upload(tmp_zip, bucket_to_use, dest_prefix, MAX_RECURSION_DEPTH)
CallExtract ==
    /\ hpc = "extract"
    /\ stack' = <<Frame(<<>>, tmp_zip, top_prefix, input.MAX_RECURSION_DEPTH)>>
    /\ hpc' = "extracting"
    /\ UNCHANGED <<input, response, cos, tmpfs, nfail, hist>>

\* the dict main_handler builds from extraction_result
OkResponse(res) ==
    [status |-> "ok",
     files_uploaded |-> res.files_uploaded,
     nested_zips_processed |-> res.nested_zips_processed,
     max_depth_reached |-> res.max_depth_reached]

\* os.remove(tmp_zip), then the 'ok' result
RemoveAndReturn ==
    /\ hpc = "remove"
    /\ tmpfs' = RemoveFile(tmpfs, tmp_zip)
    /\ hpc' = "done"
    /\ response' = OkResponse((CHOOSE r \in returned : r.cid = <<>>).res)
    /\ UNCHANGED <<input, stack, cos, nfail, hist>>

(***************************************************************************)
(* How a call of _extract_and_upload ends: it hands a result, or an        *)
(* exception, to its caller: the loop over nested_zips of the level above, *)
(* or main_handler.                                                        *)
(***************************************************************************)
\* a caller that forgets to count the nested zip itself
Accumulate_NoPlusOne(caller, res) ==
    [caller EXCEPT !.nested_zips_processed = @ + res.nested_zips_processed,
                   !.files_uploaded = @ + res.files_uploaded,
                   !.pc = "cleanup"]

\* the caller's frame after nested_result arrived
Accumulate(caller, res) ==
    [caller EXCEPT !.nested_zips_processed = @ + 1 + res.nested_zips_processed,
                   !.files_uploaded = @ + res.files_uploaded,
                   !.pc = "cleanup"]

\* the top activation returns res
Returns(res) ==
    /\ returned' = returned \cup {[cid |-> Top.cid, res |-> res, max_depth |-> Top.max_depth,
                                   found |-> Len(Top.nested_zips)]}
    /\ IF Len(stack) = 1
       THEN /\ stack' = <<>>
            /\ hpc' = "remove"
            /\ UNCHANGED response
       ELSE /\ stack' = [Callers EXCEPT ![Len(stack) - 1] = Accumulate(@, res)]
            /\ UNCHANGED <<hpc, response>>

\* a loop over nested_zips without its try/except: the exception goes on upwards
Raises_Uncaught ==
    /\ raised' = raised \cup {Top.cid}
    /\ IF Len(stack) = 1
       THEN /\ stack' = <<>>
            /\ hpc' = "done"
            /\ response' = [status |-> "error"]
       ELSE /\ stack' = [Callers EXCEPT ![Len(stack) - 1].pc = "shutdown"]
            /\ UNCHANGED <<hpc, response>>

\* the top activation raises
Raises ==
    /\ raised' = raised \cup {Top.cid}
    /\ IF Len(stack) = 1
       THEN /\ stack' = <<>>
            /\ hpc' = "done"
            /\ response' = [status |-> "error"]
       ELSE /\ stack' = [Callers EXCEPT ![Len(stack) - 1].pc = "cleanup"]
            /\ UNCHANGED <<hpc, response>>

(***************************************************************************)
(* One level: _extract_and_upload.                                         *)
(***************************************************************************)
\* if max_depth <= 0: return at once
EarlyReturn ==
    /\ Len(stack) > 0
    /\ Top.pc = "entry"
    /\ BudgetExhausted(Top.max_depth)
    /\ Returns(LevelResult(0, 0, TRUE))
    /\ UNCHANGED <<input, cos, tmpfs, nfail, submitted, puts, jobs, staged, opened, raised, upfailed, stagefailed>>

\* zipfile.ZipFile(zip_path) and the ThreadPoolExecutor are entered
OpenZip ==
    /\ Len(stack) > 0
    /\ Top.pc = "entry"
    /\ ~BudgetExhausted(Top.max_depth)
    /\ FileExists(tmpfs, Top.zip_path)
    /\ ReadFile(tmpfs, Top.zip_path).kind = "zip"
    /\ LET zf == ReadFile(tmpfs, Top.zip_path)
       IN /\ stack' = SetTop([Top EXCEPT !.members = infolist(zf),
                                         !.pc = IF Len(infolist(zf)) = 0 THEN "barrier"
                                                ELSE "scan"])
          /\ opened' = opened \cup {[cid |-> Top.cid, zip |-> zf,
                                     dest_prefix |-> Top.dest_prefix,
                                     max_depth |-> Top.max_depth]}
    /\ UNCHANGED <<input, hpc, response, cos, tmpfs, nfail,
                   submitted, puts, jobs, staged, returned, raised, upfailed, stagefailed>>

\* zipfile.ZipFile(zip_path) raises: the file is missing or is no zip
OpenFails ==
    /\ Len(stack) > 0
    /\ Top.pc = "entry"
    /\ ~BudgetExhausted(Top.max_depth)
    /\ \/ ~FileExists(tmpfs, Top.zip_path)
       \/ ReadFile(tmpfs, Top.zip_path).kind # "zip"
    /\ Raises
    /\ UNCHANGED <<input, cos, tmpfs, nfail, submitted, puts, jobs, staged, opened, returned, upfailed, stagefailed>>

\* one turn of 'for member in zf.infolist()'
ScanMember ==
    /\ Len(stack) > 0
    /\ Top.pc = "scan"
    /\ \E clean_name \in {_sanitize_member(Top.members[Top.i].filename)} :
       LET f == Top
           member == f.members[f.i]
           branch == Classify(member, clean_name)
           after == IF f.i = Len(f.members) THEN "barrier" ELSE "scan"
           task == UploadTask(f.cid, f.i, member, clean_name, f.dest_prefix)
           job == NestedJob(f.cid, f.i, member, clean_name, f.dest_prefix,
                            Len(f.nested_zips))
       IN CASE branch = "upload" ->
                 /\ stack' = SetTop([f EXCEPT !.tasks = Append(@, task),
                                              !.st = Append(@, "pending"),
                                              !.files_uploaded = @ + 1,
                                              !.i = @ + 1, !.pc = after])
                 /\ submitted' = submitted \cup {task}
                 /\ UNCHANGED jobs
            [] branch = "nested" ->
                 /\ stack' = SetTop([f EXCEPT !.nested_zips = Append(@, job),
                                              !.i = @ + 1, !.pc = after])
                 /\ jobs' = jobs \cup {job}
                 /\ UNCHANGED submitted
            [] branch = "unreadable" ->
                 \* zf.open / src.read raises inside the 'with executor' block
                 /\ stack' = SetTop([f EXCEPT !.pc = "shutdown"])
                 /\ UNCHANGED <<submitted, jobs>>
            [] OTHER ->
                 /\ stack' = SetTop([f EXCEPT !.i = @ + 1, !.pc = after])
                 /\ UNCHANGED <<submitted, jobs>>
    /\ UNCHANGED <<input, hpc, response, cos, tmpfs, nfail,
                   puts, staged, opened, returned, raised, upfailed, stagefailed>>

(***************************************************************************)
(* The worker threads of a level's pool.                                   *)
(***************************************************************************)
Running(f) == {t \in 1..Len(f.st) : f.st[t] = "running"}

Pending(f) == {t \in 1..Len(f.st) : f.st[t] = "pending"}

\* a pool that starts a thread for every queued task
WorkerStart_Unbounded(l) ==
    /\ l \in 1..Len(stack)
    /\ Pending(stack[l]) # {}
    /\ LET t == CHOOSE u \in Pending(stack[l]) : \A v \in Pending(stack[l]) : u <= v
       IN stack' = [stack EXCEPT ![l].st[t] = "running"]
    /\ UNCHANGED <<input, hpc, response, cos, tmpfs, nfail, hist>>

\* a free worker takes the oldest queued task
WorkerStart(l) ==
    /\ l \in 1..Len(stack)
    /\ Pending(stack[l]) # {}
    /\ Cardinality(Running(stack[l])) < MAX_WORKERS
    /\ LET t == CHOOSE u \in Pending(stack[l]) : \A v \in Pending(stack[l]) : u <= v
       IN stack' = [stack EXCEPT ![l].st[t] = "running"]
    /\ UNCHANGED <<input, hpc, response, cos, tmpfs, nfail, hist>>

\* _upload_object: put_object succeeds
UploadOk(l, t) ==
    /\ l \in 1..Len(stack)
    /\ t \in Running(stack[l])
    /\ stack' = [stack EXCEPT ![l].st[t] = "done"]
    /\ cos' = PutObject(cos, stack[l].tasks[t])
    /\ puts' = puts \cup {stack[l].tasks[t]}
    /\ UNCHANGED <<input, hpc, response, tmpfs, nfail,
                   submitted, jobs, staged, opened, returned, raised, upfailed, stagefailed>>

\* _upload_object: put_object raises
UploadFails(l, t) ==
    /\ l \in 1..Len(stack)
    /\ t \in Running(stack[l])
    /\ nfail < MaxFailures
    /\ nfail' = nfail + 1
    /\ stack' = [stack EXCEPT ![l].st[t] = "failed"]
    /\ upfailed' = upfailed \cup {stack[l].tasks[t]}
    /\ UNCHANGED <<input, hpc, response, cos, tmpfs,
                   submitted, puts, jobs, staged, opened, returned, raised, stagefailed>>

(***************************************************************************)
(* The barrier: 'for fut in as_completed(tasks): fut.result()', and the    *)
(* exits of the two with blocks.                                           *)
(***************************************************************************)
\* a barrier that waits for the futures but never asks for their result
BarrierPass_IgnoresFailures ==
    /\ Len(stack) > 0
    /\ Top.pc = "barrier"
    /\ Finished(Top)
    /\ stack' = SetTop([Top EXCEPT !.pc = "nested"])
    /\ UNCHANGED <<input, hpc, response, cos, tmpfs, nfail, hist>>

\* every future completed without exception; the pool and the zip are closed
BarrierPass ==
    /\ Len(stack) > 0
    /\ Top.pc = "barrier"
    /\ \A t \in 1..Len(Top.st) : Top.st[t] = "done"
    /\ stack' = SetTop([Top EXCEPT !.pc = "nested"])
    /\ UNCHANGED <<input, hpc, response, cos, tmpfs, nfail, hist>>

\* fut.result() re-raises the exception of a failed upload
BarrierRaise ==
    /\ Len(stack) > 0
    /\ Top.pc = "barrier"
    /\ \E t \in 1..Len(Top.st) : Top.st[t] = "failed"
    /\ stack' = SetTop([Top EXCEPT !.pc = "shutdown"])
    /\ UNCHANGED <<input, hpc, response, cos, tmpfs, nfail, hist>>

\* an exception that leaves the call while uploads of the level are still under way
Unwind_NoWait ==
    /\ Len(stack) > 0
    /\ Top.pc = "shutdown"
    /\ Raises
    /\ UNCHANGED <<input, cos, tmpfs, nfail, submitted, puts, jobs, staged, opened, returned, upfailed, stagefailed>>

\* executor.__exit__ has waited for every submitted task; the exception leaves the call
Unwind ==
    /\ Len(stack) > 0
    /\ Top.pc = "shutdown"
    /\ Finished(Top)
    /\ Raises
    /\ UNCHANGED <<input, cos, tmpfs, nfail, submitted, puts, jobs, staged, opened, returned, upfailed, stagefailed>>

(***************************************************************************)
(* 'for nested_zip in nested_zips': stage, recurse, clean up.              *)
(***************************************************************************)
\* open(nested_zip['path'], 'wb'); f.write(nested_zip['data'])
Stage ==
    /\ Len(stack) > 0
    /\ Top.pc = "nested"
    /\ Top.j <= Len(Top.nested_zips)
    /\ LET nested_zip == Top.nested_zips[Top.j]
       IN /\ tmpfs' = WriteFile(tmpfs, nested_zip.path, nested_zip.data)
          /\ staged' = staged \cup {nested_zip}
    /\ stack' = SetTop([Top EXCEPT !.pc = "call"])
    /\ UNCHANGED <<input, hpc, response, cos, nfail,
                   submitted, puts, jobs, opened, returned, raised, upfailed, stagefailed>>

\* f.write raises (no space left in /tmp): a truncated file stays behind
StageFails ==
    /\ Len(stack) > 0
    /\ Top.pc = "nested"
    /\ Top.j <= Len(Top.nested_zips)
    /\ nfail < MaxFailures
    /\ nfail' = nfail + 1
    /\ LET nested_zip == Top.nested_zips[Top.j]
       IN /\ tmpfs' = WriteFile(tmpfs, nested_zip.path, Bad("truncated"))
          /\ staged' = staged \cup {nested_zip}
          /\ stagefailed' = stagefailed \cup {nested_zip}
    /\ stack' = SetTop([Top EXCEPT !.pc = "cleanup"])
    /\ UNCHANGED <<input, hpc, response, cos,
                   submitted, puts, jobs, opened, returned, raised, upfailed>>

\* nested_result = _extract_and_upload(path, bucket, dest_prefix, max_depth - 1)
Recurse ==
    /\ Len(stack) > 0
    /\ Top.pc = "call"
    /\ LET nested_zip == Top.nested_zips[Top.j]
       IN stack' = Append(SetTop([Top EXCEPT !.pc = "wait"]),
                          Frame(Append(Top.cid, Top.j), nested_zip.path,
                                nested_zip.dest_prefix, ChildDepth(Top.max_depth)))
    /\ UNCHANGED <<input, hpc, response, cos, tmpfs, nfail, hist>>

\* a finally clause that forgets the temp file
Cleanup_NoRemove ==
    /\ Len(stack) > 0
    /\ Top.pc = "cleanup"
    /\ stack' = SetTop([Top EXCEPT !.j = @ + 1, !.pc = "nested"])
    /\ UNCHANGED <<input, hpc, response, cos, tmpfs, nfail, hist>>

\* finally: os.remove(nested_zip['path']); the loop goes on
Cleanup ==
    /\ Len(stack) > 0
    /\ Top.pc = "cleanup"
    /\ tmpfs' = RemoveFile(tmpfs, Top.nested_zips[Top.j].path)
    /\ stack' = SetTop([Top EXCEPT !.j = @ + 1, !.pc = "nested"])
    /\ UNCHANGED <<input, hpc, response, cos, nfail, hist>>

\* the loop is over: return the summary
Return ==
    /\ Len(stack) > 0
    /\ Top.pc = "nested"
    /\ Top.j > Len(Top.nested_zips)
    /\ Returns(LevelResult(Top.files_uploaded, Top.nested_zips_processed,
                           DepthFlag(Top.max_depth, Top.nested_zips)))
    /\ UNCHANGED <<input, cos, tmpfs, nfail, submitted, puts, jobs, staged, opened, raised, upfailed, stagefailed>>

Next ==
    \/ Download
    \/ DownloadFails
    \/ CallExtract
    \/ RemoveAndReturn
    \/ EarlyReturn
    \/ OpenZip
    \/ OpenFails
    \/ ScanMember
    \/ \E l \in 1..Len(stack) : WorkerStart(l)
    \/ \E l \in 1..Len(stack) : \E t \in 1..Len(stack[l].st) : UploadOk(l, t)
    \/ \E l \in 1..Len(stack) : \E t \in 1..Len(stack[l].st) : UploadFails(l, t)
    \/ BarrierPass
    \/ BarrierRaise
    \/ Unwind
    \/ Stage
    \/ StageFails
    \/ Recurse
    \/ Cleanup
    \/ Return

Spec == Init /\ [][Next]_vars

\* the interpreter keeps running the handler, and every put_object comes back
\* (with a result or an exception): a step that can be taken is taken
FairSpec == Spec /\ WF_vars(Next)

(***************************************************************************)
(* Vocabulary of the properties.                                           *)
(***************************************************************************)
\* the members of an opened archive, by position
Positions(o) == 1..Len(infolist(o.zip))

MemberAt(o, i) == infolist(o.zip)[i]

\* some '/'-delimited segment of the name is '..'
HasDotDotSegment(name) ==
    \E a \in 0..Len(name) : \E b \in a..Len(name) :
        /\ b - a = 2
        /\ SubSeq(name, a + 1, b) = ".."
        /\ (a = 0 \/ Char(name, a) = "/")
        /\ (b = Len(name) \/ Char(name, b + 1) = "/")

\* the directory bit 0o40000 in the high half of the attribute field
DirBitSet(member) == (member.external_attr.hi % (2 * 16384)) >= 16384

\* the uploads submitted, and the jobs recorded, for member i of the opened archive o
UploadsOf(o, i) == {u \in submitted : u.cid = o.cid /\ u.idx = i}

PutsOf(o, i) == {u \in puts : u.cid = o.cid /\ u.idx = i}

JobsOf(o, i) == {jb \in jobs : jb.cid = o.cid /\ jb.idx = i}

\* the run is over and nothing failed anywhere in it
CleanFinish ==
    /\ hpc = "done"
    /\ response.status = "ok"
    /\ nfail = 0
    /\ raised = {}

\* C1: in an extraction that completed without failure, every safe, non-directory,
\* non-.zip entry of an opened level was put exactly once, under
\* join(levelPrefix, sanitizedName); every nested N.zip that was opened was opened
\* with the prefix join(levelPrefix, sanitizedName minus ".zip"), and its own
\* entries went under that prefix.  The archive {report.txt, empty_dir/,
\* bundle.zip{inner.txt}} with prefix out/job1 and budget 5 writes exactly
\* out/job1/report.txt and out/job1/bundle/inner.txt and returns (2, 1, false).
C1_KeyScheme ==
    CleanFinish =>
      /\ \A o \in opened : \A i \in Positions(o) :
           LET m == MemberAt(o, i)
               clean == _sanitize_member(m.filename)
               plain == /\ ~startswith(m.filename, "/")
                        /\ ~HasDotDotSegment(m.filename)
                        /\ ~_zipinfo_is_dir(m)
           IN /\ (plain /\ ~endswith(lower(clean), ".zip")) =>
                    /\ Cardinality(PutsOf(o, i)) = 1
                    /\ \A u \in PutsOf(o, i) :
                         u.key = join(o.dest_prefix, clean) /\ u.data = m.data
              /\ (plain /\ endswith(lower(clean), ".zip")) =>
                    \A c \in opened :
                       (\E jb \in JobsOf(o, i) : c.cid = Append(o.cid, jb.pos)) =>
                          /\ c.zip = m.data
                          /\ c.dest_prefix = join(o.dest_prefix, DropLast(clean, 4))
      /\ \A u \in puts : \E o \in opened :
           /\ o.cid = u.cid
           /\ u.key = join(o.dest_prefix, _sanitize_member(u.filename))
      /\ (input.zip = Arch("job") /\ input.MAX_RECURSION_DEPTH = 5) =>
           /\ top_prefix = "out/job1"
           /\ {u.key : u \in puts} = {"out/job1/report.txt", "out/job1/bundle/inner.txt"}
           /\ Cardinality(puts) = 2
           /\ {ob.key : ob \in cos} = {"out/job1/report.txt", "out/job1/bundle/inner.txt"}
           /\ response = [status |-> "ok", files_uploaded |-> 2,
                          nested_zips_processed |-> 1, max_depth_reached |-> FALSE]

\* the end-to-end scenario has run to its end without failure
C1_Witness ==
    /\ CleanFinish
    /\ input.zip = Arch("job")
    /\ input.MAX_RECURSION_DEPTH = 5
    /\ Cardinality(puts) = 2

\* C2: an entry whose raw name begins with '/' or has a '..' segment fails the safety
\* check, and no upload and no nested job is ever made for it, at any level, also
\* when its name ends in .zip.
C2_UnsafeSkipped ==
    \A o \in opened : \A i \in Positions(o) :
        LET m == MemberAt(o, i)
        IN (startswith(m.filename, "/") \/ HasDotDotSegment(m.filename)) =>
              /\ ~_is_safe_member(m.filename)
              /\ UploadsOf(o, i) = {}
              /\ JobsOf(o, i) = {}

\* a level holding unsafe names (one of them a .zip) was walked to its end, one
\* level below the top
C2_Witness ==
    /\ \E r \in returned : \E o \in opened :
          /\ o.cid = r.cid
          /\ Len(o.cid) = 1
          /\ \E i \in Positions(o) : MemberAt(o, i).filename = "//x.zip"
          /\ \E i \in Positions(o) : HasDotDotSegment(MemberAt(o, i).filename)
    /\ hpc = "done"

\* C3: an entry is a directory exactly when is_dir() says so, or when is_dir() says
\* no or raises and the directory bit is set in external_attr >> 16; when reading the
\* attribute raises too it is no directory.  No entry classified as a directory gets
\* an upload or a nested job.
C3_DirectoryClassified ==
    \A o \in opened : \A i \in Positions(o) :
        LET m == MemberAt(o, i)
            dir == \/ m.is_dir = "true"
                   \/ (m.is_dir \in {"false", "raise"} /\ ~m.attr_raises /\ DirBitSet(m))
        IN /\ _zipinfo_is_dir(m) = dir
           /\ dir => (UploadsOf(o, i) = {} /\ JobsOf(o, i) = {})
           /\ (m.is_dir = "raise" /\ m.attr_raises) => ~_zipinfo_is_dir(m)

\* the level with the fallback cases returned: the entry whose two probes raise was
\* uploaded as a file, the entries found by the attribute bit were not
C3_Witness ==
    /\ hpc = "done"
    /\ input.zip = Arch("dirs")
    /\ response.status = "ok"
    /\ \E u \in puts : u.filename = "f4"
    /\ \A u \in submitted : u.filename \notin {"d1", "d3", "d5.zip"}
    /\ jobs = {}

\* C4: no upload is ever submitted for an entry whose sanitized name ends, in any
\* letter case, in .zip; the bucket never holds an object written for such an entry.
C4_NoZipUploaded ==
    /\ \A u \in submitted : ~endswith(lower(_sanitize_member(u.filename)), ".zip")
    /\ \A l \in 1..Len(stack) : \A t \in 1..Len(stack[l].tasks) :
          ~endswith(lower(_sanitize_member(stack[l].tasks[t].filename)), ".zip")
    /\ \A ob \in cos : \E u \in puts :
          /\ u.key = ob.key
          /\ ~endswith(lower(_sanitize_member(u.filename)), ".zip")

\* an archive with an upper-case .ZIP entry was extracted, its contents uploaded
C4_Witness ==
    /\ hpc = "done"
    /\ \E jb \in staged : jb.filename = "deep/PHOTOS.ZIP"
    /\ \E u \in puts : Len(u.cid) = 1 /\ u.filename = "a..b/c.txt"

\* the chain input of the depth claim: B + 1 levels, budget B
ChainRun == /\ input.MAX_RECURSION_DEPTH >= 1
            /\ input.zip = Chain(1, input.MAX_RECURSION_DEPTH + 1)

\* C5: for a chain of B + 1 nested archives extracted with budget B, the archive of
\* level B + 1 is never opened and none of its entries is uploaded; when the run
\* ends without failure the plain files of the levels 1..B are all in the bucket.
C5_DepthBound ==
    ChainRun =>
      LET B == input.MAX_RECURSION_DEPTH
      IN /\ \A o \in opened : o.zip # Chain(B + 1, B + 1) /\ Len(o.cid) < B
         /\ \A u \in submitted : u.data # Plain(B + 1) /\ Len(u.cid) < B
         /\ CleanFinish =>
              \A k \in 1..B : \E u \in puts :
                 /\ u.data = Plain(k)
                 /\ Len(u.cid) = k - 1
                 /\ \E ob \in cos : ob.key = u.key /\ ob.data = Plain(k)

\* the chain of MaxBudget + 1 levels was extracted with budget MaxBudget, the last
\* level staged and handed to a call that returned at once
C5_Witness ==
    /\ ChainRun
    /\ input.MAX_RECURSION_DEPTH = MaxBudget
    /\ CleanFinish
    /\ \E jb \in staged : jb.data = Chain(MaxBudget + 1, MaxBudget + 1)
    /\ Cardinality(puts) = MaxBudget

\* the calls made by the level cid that returned a result
ReturnedChildren(cid) ==
    {c \in returned : Len(c.cid) = Len(cid) + 1 /\ SubSeq(c.cid, 1, Len(cid)) = cid}

RECURSIVE SumNested(_)
\* the sum of 1 + nested_zips_processed over a set of returned calls
SumNested(S) ==
    IF S = {} THEN 0
    ELSE LET c == CHOOSE x \in S : TRUE
         IN 1 + c.res.nested_zips_processed + SumNested(S \ {c})

RECURSIVE SumFiles(_)
\* the sum of files_uploaded over a set of returned calls
SumFiles(S) ==
    IF S = {} THEN 0
    ELSE LET c == CHOOSE x \in S : TRUE
         IN c.res.files_uploaded + SumFiles(S \ {c})

RECURSIVE SumCounts(_)
\* the sum of nested_zips_processed over a set of returned calls
SumCounts(S) ==
    IF S = {} THEN 0
    ELSE LET c == CHOOSE x \in S : TRUE
         IN c.res.nested_zips_processed + SumCounts(S \ {c})

\* the level's own truncation condition: no budget at entry, or budget <= 1 with a
\* nested archive found
OwnTruncation(r) == r.max_depth <= 0 \/ (r.max_depth <= 1 /\ r.found > 0)

\* C6: max_depth_reached of a level's result is its own truncation condition OR-ed
\* with the flags of the children that returned; so when a run ends without failure
\* and some nested archive was left unprocessed for lack of budget, the result of
\* the top-level call has max_depth_reached = true.
C6_FlagOred ==
    /\ \A r \in returned :
          r.res.max_depth_reached =
             (\/ OwnTruncation(r)
              \/ \E c \in ReturnedChildren(r.cid) : c.res.max_depth_reached)
    /\ (CleanFinish /\ \E r \in returned : BudgetExhausted(r.max_depth)) =>
          response.max_depth_reached

\* C7: a call with budget <= 0 returns (0, 0, true) and does nothing else: it never
\* leaves its entry point, opens no archive, submits no upload, records and stages
\* no nested job, and does not raise.
C7_ZeroBudgetReturnsAtOnce ==
    /\ \A l \in 1..Len(stack) :
          stack[l].max_depth <= 0 =>
             /\ stack[l].pc = "entry"
             /\ stack[l].tasks = <<>>
             /\ stack[l].nested_zips = <<>>
    /\ \A r \in returned :
          r.max_depth <= 0 =>
             /\ r.res = [files_uploaded |-> 0, nested_zips_processed |-> 0,
                         max_depth_reached |-> TRUE]
             /\ \A o \in opened : o.cid # r.cid
             /\ \A u \in submitted : u.cid # r.cid
             /\ \A jb \in jobs \cup staged : jb.cid # r.cid
    /\ \A o \in opened : o.max_depth >= 1
    /\ \A c \in raised : input.MAX_RECURSION_DEPTH - Len(c) >= 1
    /\ (hpc = "done" /\ input.MAX_RECURSION_DEPTH <= 0 /\ response.status # "error") =>
          /\ response = [status |-> "ok", files_uploaded |-> 0,
                         nested_zips_processed |-> 0, max_depth_reached |-> TRUE]
          /\ opened = {} /\ submitted = {} /\ staged = {} /\ cos = {}

\* a nested call entered with budget 0 has returned, and so has a top-level one
C7_Witness ==
    /\ hpc = "done"
    /\ \E r \in returned : r.max_depth = 0 /\ Len(r.cid) > 0
    /\ \E r \in returned : r.max_depth = 0 /\ r.res.max_depth_reached

\* C8: nested_zips_processed of a level's result is the sum, over its nested jobs
\* whose call returned, of 1 + the child's count.  A root with two nested archives,
\* one of them holding one more, extracted with budget >= 3 and no failure, gives 3.
C8_NestedCount ==
    /\ \A r \in returned :
          r.res.nested_zips_processed = SumNested(ReturnedChildren(r.cid))
    /\ (CleanFinish /\ input.zip = Arch("tree") /\ input.MAX_RECURSION_DEPTH >= 3) =>
          response.nested_zips_processed = 3

\* the tree was extracted to its end; the level with the inner nested archive
\* reported 1, the root 3
C8_Witness ==
    /\ CleanFinish
    /\ input.zip = Arch("tree")
    /\ input.MAX_RECURSION_DEPTH >= 3
    /\ \E r \in returned : r.cid = <<2>> /\ r.res.nested_zips_processed = 1
    /\ response.nested_zips_processed = 3

\* C9: when an upload submitted at a level fails, that level's call raises and
\* returns no result, none of the level's nested jobs is staged, and every put that
\* succeeded is still in the bucket; when the level is the top one, main_handler
\* answers with status error.
C9_UploadFailureFailsLevel ==
    /\ \A t \in upfailed :
          /\ \A r \in returned : r.cid # t.cid
          /\ \A jb \in staged : jb.cid # t.cid
          /\ \A l \in 1..Len(stack) :
                stack[l].cid = t.cid => stack[l].pc \in {"scan", "barrier", "shutdown"}
          /\ (\A l \in 1..Len(stack) : stack[l].cid # t.cid) => t.cid \in raised
          /\ (hpc = "done" /\ t.cid = <<>>) => response.status = "error"
    /\ \A u \in puts : \E ob \in cos : ob.key = u.key

\* the top level failed on one upload while another of its uploads had succeeded and
\* it had recorded nested jobs: the object is still there, no job was staged
C9_Witness ==
    /\ hpc = "done"
    /\ response.status = "error"
    /\ \E t \in upfailed : t.cid = <<>>
    /\ \E u \in puts : u.cid = <<>> /\ \E ob \in cos : ob.key = u.key
    /\ \E jb \in jobs : jb.cid = <<>>
    /\ staged = {}

\* the reason a call raises by itself: the archive could not be opened, a member
\* could not be read, or one of its uploads failed
OwnFailure(cid) ==
    \/ \A o \in opened : o.cid # cid
    \/ \E o \in opened : o.cid = cid /\ \E i \in Positions(o) : MemberAt(o, i).data.kind = "bad"
    \/ \E t \in upfailed : t.cid = cid

\* C10: a nested job that fails (its temp file cannot be written, its archive cannot
\* be read, or the child level raises) is caught by the level that recorded it: that
\* level does not raise because of it, goes on to every later job, counts nothing
\* for the failed job and returns a result.  A corrupt bundle.zip beside report.txt,
\* with budget >= 2 and no other failure, gives files_uploaded 1 and
\* nested_zips_processed 0.
C10_NestedFailureIsolated ==
    /\ \A c \in raised : OwnFailure(c)
    /\ \A c \in raised : Len(c) > 0 => SubSeq(c, 1, Len(c) - 1) \notin raised
    /\ \A r \in returned :
          /\ \A jb \in jobs :
                jb.cid = r.cid =>
                   /\ jb \in staged
                   /\ \/ jb \in stagefailed
                      \/ Append(r.cid, jb.pos) \in raised
                      \/ \E c \in returned : c.cid = Append(r.cid, jb.pos)
          /\ r.res.files_uploaded =
                Cardinality({u \in submitted : u.cid = r.cid})
                + SumFiles(ReturnedChildren(r.cid))
          /\ r.res.nested_zips_processed =
                Cardinality(ReturnedChildren(r.cid)) + SumCounts(ReturnedChildren(r.cid))
    /\ (hpc = "done" /\ input.zip = Arch("corrupt") /\ input.MAX_RECURSION_DEPTH >= 2
        /\ nfail = 0) =>
          /\ response = [status |-> "ok", files_uploaded |-> 1,
                         nested_zips_processed |-> 0, max_depth_reached |-> FALSE]
          /\ \E ob \in cos : ob.key = "out/job1/report.txt"
          /\ raised = {<<1>>}

\* a level whose first nested job failed went on to the next one and returned
C10_Witness ==
    /\ hpc = "done"
    /\ input.zip = Arch("wrap")
    /\ response.status = "ok"
    /\ <<1>> \in raised
    /\ \E c \in returned : c.cid = <<2>> /\ c.res.files_uploaded = 1
    /\ response.files_uploaded = 2
    /\ response.nested_zips_processed = 1

\* the uploads submitted and neither completed nor failed yet
Unfinished == submitted \ (puts \cup upfailed)

\* the frame of the call cid is in its dispatch phase: inside the two with blocks
Dispatching(cid) ==
    \E l \in 1..Len(stack) :
        stack[l].cid = cid /\ stack[l].pc \in {"scan", "barrier", "shutdown"}

\* C11: while an upload submitted at a level is pending or running, the level is
\* still inside its dispatch phase: none of its nested jobs has been staged, no call
\* made for one of them has opened an archive, and the level has neither returned
\* nor raised, also after one of its uploads failed.
C11_LevelBarrier ==
    /\ \A u \in Unfinished :
          /\ Dispatching(u.cid)
          /\ \A jb \in staged : jb.cid # u.cid
          /\ \A o \in opened :
                ~(Len(o.cid) > Len(u.cid) /\ SubSeq(o.cid, 1, Len(u.cid)) = u.cid)
          /\ u.cid \notin raised
          /\ \A r \in returned : r.cid # u.cid
    /\ \A l \in 1..Len(stack) :
          stack[l].pc \in {"nested", "call", "wait", "cleanup"} =>
             \A t \in 1..Len(stack[l].st) : stack[l].st[t] = "done"

\* one upload of a level has failed and the walker has seen it while another upload
\* of the same level is still running
C11_Witness ==
    /\ Len(stack) > 0
    /\ Top.pc = "shutdown"
    /\ \E t \in 1..Len(Top.st) : Top.st[t] = "failed"
    /\ \E t \in 1..Len(Top.st) : Top.st[t] \in {"pending", "running"}
    /\ Top.nested_zips # <<>>

\* the nested jobs a frame is done with: those before its loop position
JobsDone(f) ==
    {f.nested_zips[k] : k \in {n \in 1..Len(f.nested_zips) : n < f.j}}

\* C12: once a level has finished with a nested job (the call on it returned or
\* raised, or its temp file could not be written) the job's temp file is gone; when
\* the top-level extraction has returned or raised, no temp file of any nested job
\* staged during it exists.
C12_StagedFilesRemoved ==
    /\ \A l \in 1..Len(stack) :
          stack[l].pc = "nested" =>
             \A jb \in JobsDone(stack[l]) : ~FileExists(tmpfs, jb.path)
    /\ (stack = <<>> /\ hpc \in {"remove", "done"}) =>
          \A jb \in staged : ~FileExists(tmpfs, jb.path)
    /\ \A f \in tmpfs :
          \/ f.path = tmp_zip
          \/ \E l \in 1..Len(stack) :
                /\ stack[l].pc \in {"call", "wait", "cleanup"}
                /\ stack[l].nested_zips[stack[l].j].path = f.path

\* a run ended after a child level raised, a write of a temp file failed and another
\* nested job was extracted: none of their files is left
C12_Witness ==
    /\ hpc = "done"
    /\ raised # {}
    /\ stagefailed # {}
    /\ \E r \in returned : Len(r.cid) > 0 /\ r.res.files_uploaded > 0
    /\ \A jb \in staged : ~FileExists(tmpfs, jb.path)

\* the name is empty or made of path separators only
OnlySeparators(name) == \A i \in 1..Len(name) : Char(name, i) = "/"

\* the loop over the members of the opened archive o has dealt with member i
Walked(o, i) ==
    \A l \in 1..Len(stack) :
        stack[l].cid = o.cid => ~(stack[l].pc = "scan" /\ stack[l].i <= i)

\* C13: an entry whose stored name is empty or consists only of '/' normalizes to
\* the empty path and is skipped: no upload, no nested job, and the level does not
\* fail because of it.
C13_EmptyNameSkipped ==
    \A o \in opened : \A i \in Positions(o) :
        (OnlySeparators(MemberAt(o, i).filename) /\ Walked(o, i)) =>
           /\ _sanitize_member(MemberAt(o, i).filename) = ""
           /\ UploadsOf(o, i) = {}
           /\ JobsOf(o, i) = {}

\* C14: when main_handler has downloaded the zip and has returned, with status ok or
\* with status error after a failed extraction, the downloaded file /tmp/<name>.zip
\* does not exist any more.
C14_TempZipRemoved ==
    (hpc = "done" /\ (<<>> \in raised \/ \E r \in returned : r.cid = <<>>)) =>
       ~FileExists(tmpfs, tmp_zip)

(***************************************************************************)
(* C15: one pool at a time, sequential recursion.                          *)
(***************************************************************************)
\* the levels whose worker pool exists (inside 'with ThreadPoolExecutor')
PoolLevels == {l \in 1..Len(stack) : stack[l].pc \in {"scan", "barrier", "shutdown"}}

\* the uploads that run at this moment, over all levels
RunningNow == UNION {{<<l, t>> : t \in Running(stack[l])} : l \in 1..Len(stack)}

IsPrefix(p, c) == Len(p) <= Len(c) /\ SubSeq(c, 1, Len(p)) = p

\* the recursive call on job b is over, with its whole sub-recursion
SubRecursionOver(b) ==
    LET child == Append(b.cid, b.pos)
    IN /\ \/ b \in stagefailed
          \/ child \in raised
          \/ \E r \in returned : r.cid = child
       /\ \A l \in 1..Len(stack) : ~IsPrefix(child, stack[l].cid)
       /\ \A u \in Unfinished : ~IsPrefix(child, u.cid)

\* C15: at every moment the pending and running uploads belong to one level, at most
\* one worker pool exists, at most MAX_WORKERS uploads run at once, and a nested
\* archive is staged only when the recursive call of every earlier sibling is over,
\* with its whole sub-recursion and its pools.
C15_OnePoolSequential ==
    /\ \A u1, u2 \in Unfinished : u1.cid = u2.cid
    /\ Cardinality(PoolLevels) <= 1
    /\ \A l \in PoolLevels : l = Len(stack)
    /\ \A l \in 1..Len(stack) :
          l \notin PoolLevels => Running(stack[l]) = {} /\ Pending(stack[l]) = {}
    /\ Cardinality(RunningNow) <= MAX_WORKERS
    /\ \A l \in 1..Len(stack) : l < Len(stack) => stack[l].pc = "wait"
    /\ \A a \in staged : \A b \in jobs :
          (b.cid = a.cid /\ b.pos < a.pos) => b \in staged /\ SubRecursionOver(b)

\* a second sibling is staged after the first one's recursion, and a deeper level has
\* a full pool with a task waiting for a worker
C15_Witness ==
    /\ Len(stack) >= 2
    /\ Cardinality(Running(Top)) = MAX_WORKERS
    /\ Pending(Top) # {}
    /\ \E a \in staged : a.pos >= 2 /\ IsPrefix(Append(a.cid, a.pos), Top.cid)

(***************************************************************************)
(* C16: the staged file of a nested job.                                   *)
(***************************************************************************)
\* the levels that hold a staged file of their current job
Holding == {l \in 1..Len(stack) : stack[l].pc \in {"call", "wait", "cleanup"}}

CurrentJob(l) == stack[l].nested_zips[stack[l].j]

\* C16: while the staged file of a job exists and the recursive call on it has not
\* returned, no other job of the extraction and not the downloaded zip uses the same
\* path, and the file is still there with the bytes of the job.
C16_StagedPathExclusive ==
    \A l \in 1..Len(stack) :
        stack[l].pc \in {"call", "wait"} =>
            /\ CurrentJob(l).path # tmp_zip
            /\ \A m \in Holding : m # l => CurrentJob(m).path # CurrentJob(l).path
            /\ FileExists(tmpfs, CurrentJob(l).path)
            /\ ReadFile(tmpfs, CurrentJob(l).path) = CurrentJob(l).data

(***************************************************************************)
(* C18: containment of the keys.                                           *)
(***************************************************************************)
\* C18: every key handed to put_object, at any depth, begins with the top-level
\* destination prefix followed by '/' and has no '..' segment.
C18_KeysContained ==
    \A u \in puts \cup upfailed :
        /\ startswith(u.key, top_prefix \o "/")
        /\ ~HasDotDotSegment(u.key)

(***************************************************************************)
(* C19: the count of the uploaded files.                                   *)
(***************************************************************************)
\* C19: when the top-level extraction returns a result, its files_uploaded is the
\* number of put operations that completed successfully, over all levels.
C19_CountAccurate ==
    \A r \in returned :
        r.cid = <<>> => r.res.files_uploaded = Cardinality(puts)

(***************************************************************************)
(* C20: one payload per key.                                               *)
(***************************************************************************)
\* C20: in an extraction without failures no two upload operations write different
\* payloads to the same destination key.
C20_OnePayloadPerKey ==
    (nfail = 0 /\ raised = {}) =>
        \A u1, u2 \in puts : u1.key = u2.key => u1.data = u2.data

(***************************************************************************)
(* C17: termination.                                                       *)
(***************************************************************************)
\* the nesting depth of a call: 1 for the downloaded zip
Depth(cid) == Len(cid) + 1

\* every call holds the budget of its caller minus 1, and no archive is opened at a
\* nesting depth greater than the configured budget
BudgetDecreases ==
    /\ \A l \in 1..Len(stack) :
          /\ l = 1 => stack[l].max_depth = input.MAX_RECURSION_DEPTH
          /\ l > 1 => stack[l].max_depth = stack[l - 1].max_depth - 1
    /\ \A o \in opened :
          /\ o.max_depth = input.MAX_RECURSION_DEPTH - Len(o.cid)
          /\ Depth(o.cid) <= input.MAX_RECURSION_DEPTH

\* C17: the budget passed to a recursive call is the caller's budget minus 1, no
\* archive is opened deeper than the initial budget, and every top-level extraction
\* eventually returns or fails, also for an archive that contains itself, when every
\* upload terminates.
C17_Termination == []BudgetDecreases /\ <>(hpc = "done" /\ stack = <<>>)

\* the archive that contains itself was extracted with the largest budget: it was
\* opened at every depth up to the budget, and the handler has returned
C17_Witness ==
    /\ input.zip = Arch("quine")
    /\ input.MAX_RECURSION_DEPTH = MaxBudget
    /\ hpc = "done"
    /\ \E r \in returned : r.cid = <<>>
    /\ \A d \in 1..MaxBudget : \E o \in opened : Depth(o.cid) = d /\ o.zip = Arch("quine")
====
